---- MODULE Spec2Model ----
(***************************************************************************)
(* Model of STP_planner.py: the two session collections (activities,      *)
(* categories), their JSON files, and the handlers that change them.      *)
(*                                                                         *)
(* One action is one click handled by one script run.  The edit flag of   *)
(* an activity (session_state["edit_<id>"]) only decides whether the      *)
(* Edit/Delete buttons or the edit form is shown; clicking Edit or Cancel *)
(* changes nothing else, so UpdateActivity stands for "Edit, then Save    *)
(* Changes".  Rendering (charts, widgets) is not modelled: an action is   *)
(* offered whenever the guards written in the script allow it.            *)
(***************************************************************************)
EXTENDS Integers, Sequences, FiniteSets, TLC

VARIABLES
    activities,     \* st.session_state.activities: list of activity dicts
    categories,     \* st.session_state.categories: dict name -> color, as an
                    \* insertion-ordered sequence of [name, color]
    data_file,      \* the file DATA_FILE
    config_file,    \* the file CONFIG_FILE
    next_uuid,      \* number of uuid4()/datetime.now() creations so far + 1
    io_failures,    \* number of injected I/O failures so far
    last            \* the last handler run and the message it showed: [op, msg]

vars == <<activities, categories, data_file, config_file, next_uuid, io_failures, last>>

----------------------------------------------------------------------------
(* Bounds of the model. *)

\* longest in-memory activity list explored
MaxActs == 2
\* number of fresh ids (uuid4 calls) explored
MaxIds == 2
\* number of I/O failures of open()/json.dump explored
MaxFails == 1

----------------------------------------------------------------------------
(* Values. *)

\* float('nan'): the id pandas gives a row whose id cell is empty
NaN == 0
\* pandas.NaT: the date pandas gives a row whose date cell is empty
NaT == 0

\* calendar days 2024-01-01 and 2024-01-02
Dates == {1, 2}

\* date.strftime('%Y-%m-%d')
strftime_date(d) == "2024-01-0" \o ToString(d)

\* datetime.strftime('%Y-%m-%d %H:%M:%S'): the microseconds are dropped
strftime_datetime(t) == "2024-01-01 00:00:0" \o ToString(t.sec)

Seconds == 0..9

\* datetime.strptime(s, '%Y-%m-%d') succeeds
strptime_date_ok(s) == \E d \in Dates : strftime_date(d) = s

\* datetime.strptime(s, '%Y-%m-%d').date()
strptime_date(s) == CHOOSE d \in Dates : strftime_date(d) = s

\* datetime.strptime(s, '%Y-%m-%d %H:%M:%S') succeeds
strptime_datetime_ok(s) == \E n \in Seconds : strftime_datetime([sec |-> n, us |-> 0]) = s

\* datetime.strptime(s, '%Y-%m-%d %H:%M:%S')
strptime_datetime(s) ==
    [sec |-> CHOOSE n \in Seconds : strftime_datetime([sec |-> n, us |-> 0]) = s, us |-> 0]

\* datetime.now(): a later reading for every creation, with microseconds
now == [sec |-> next_uuid, us |-> 1]

\* str(uuid.uuid4()): an id never handed out before
uuid4(k) == next_uuid + k

\* act['id'] == activity['id'] in Python: nan is equal to nothing, itself included
IdEq(a, b) == a # NaN /\ b # NaN /\ a = b

\* start_date <= end_date on two datetime.date values
DateLE(a, b) == a # NaT /\ b # NaT /\ a <= b

----------------------------------------------------------------------------
(* The two JSON files.  A file is absent, holds JSON ("json"), or holds   *)
(* text json.load rejects ("garbled": a write that failed half way).      *)

NoFile == [state |-> "absent", data |-> <<>>]
Garbled == [state |-> "garbled", data |-> <<>>]
JsonFile(d) == [state |-> "json", data |-> d]

\* outcomes of open(path, 'w') followed by json.dump
IoOutcomes == {"ok", "open_fails", "write_fails"}

\* load_categories: the defaults when the file is absent or undecodable
default_categories ==
    << [name |-> "Work", color |-> "#FF6B6B"],
       [name |-> "Personal", color |-> "#4ECDC4"],
       [name |-> "Project", color |-> "#45B7D1"],
       [name |-> "Meeting", color |-> "#FFA07A"],
       [name |-> "Travel", color |-> "#98D8C8"],
       [name |-> "Other", color |-> "#6C5CE7"] >>

load_categories(f) == IF f.state = "json" THEN f.data ELSE default_categories

\* the file after save_categories(cats) under I/O outcome io
save_categories_file(cats, io, f) ==
    CASE io = "ok" -> JsonFile(cats)
      [] io = "open_fails" -> f
      [] OTHER -> Garbled

\* the value save_categories returns
save_categories(cats, io) == io = "ok"

\* one record of the activities file parses: the three strptime calls succeed
record_parses(r) ==
    /\ strptime_date_ok(r.start_date)
    /\ strptime_date_ok(r.end_date)
    /\ strptime_datetime_ok(r.created_at)

\* the loop body of load_activities on one record
parse_record(r) ==
    [r EXCEPT !.start_date = strptime_date(r.start_date),
              !.end_date = strptime_date(r.end_date),
              !.created_at = strptime_datetime(r.created_at)]

\* load_activities: one try block around the whole loop, so a ValueError on
\* any record gives []
load_activities(f) ==
    IF f.state = "json" /\ \A i \in 1..Len(f.data) : record_parses(f.data[i])
    THEN [i \in 1..Len(f.data) |-> parse_record(f.data[i])]
    ELSE <<>>

\* the strftime calls of save_activities on one activity raise (NaT has no strftime)
strftime_raises(a) == a.start_date = NaT \/ a.end_date = NaT

\* activity_copy with its three dates formatted
format_record(a) ==
    [a EXCEPT !.start_date = strftime_date(a.start_date),
              !.end_date = strftime_date(a.end_date),
              !.created_at = strftime_datetime(a.created_at)]

\* only the activity touched last is written
data_to_save_last_only(acts) ==
    IF Len(acts) = 0 THEN <<>> ELSE <<format_record(acts[Len(acts)])>>

\* data_to_save
data_to_save(acts) == [i \in 1..Len(acts) |-> format_record(acts[i])]

\* the value save_activities returns
save_activities(acts, io) ==
    /\ \A i \in 1..Len(acts) : ~strftime_raises(acts[i])
    /\ io = "ok"

\* the file opened in append mode
save_activities_appending(acts, io, f) ==
    IF io = "ok" /\ \A i \in 1..Len(acts) : ~strftime_raises(acts[i])
    THEN JsonFile(f.data \o [i \in 1..Len(acts) |-> format_record(acts[i])])
    ELSE f

\* the file after save_activities(acts) under I/O outcome io: the list is
\* formatted before the file is opened, so a strftime error leaves the file alone
save_activities_file(acts, io, f) ==
    IF \E i \in 1..Len(acts) : strftime_raises(acts[i]) THEN f
    ELSE CASE io = "ok" -> JsonFile(data_to_save(acts))
           [] io = "open_fails" -> f
           [] OTHER -> Garbled

----------------------------------------------------------------------------
(* Files a session may find when it starts. *)

OldRecord ==
    [id |-> 101, name |-> "Report", start_date |-> "2024-01-01",
     end_date |-> "2024-01-02", category |-> "Work", priority |-> "High",
     description |-> "", created_at |-> "2024-01-01 00:00:00"]

\* a record whose end_date was written in another format
DamagedRecord ==
    [id |-> 102, name |-> "Visit", start_date |-> "2024-01-02",
     end_date |-> "02/01/2024", category |-> "Work", priority |-> "Low",
     description |-> "", created_at |-> "2024-01-01 00:00:00"]

InitialDataFiles ==
    { NoFile, JsonFile(<<OldRecord, DamagedRecord>>) }

InitialConfigFiles ==
    { NoFile, JsonFile(<< [name |-> "Work", color |-> "#FF6B6B"] >>) }

\* lines 84-91: both collections are loaded once when the session starts
Init ==
    /\ data_file \in InitialDataFiles
    /\ config_file \in InitialConfigFiles
    /\ activities = load_activities(data_file)
    /\ categories = load_categories(config_file)
    /\ next_uuid = 1
    /\ io_failures = 0
    /\ last = [op |-> "start", msg |-> ""]

\* an I/O outcome the model may inject now
IoAllowed(io) == io = "ok" \/ io_failures < MaxFails
IoCount(io) == IF io = "ok" THEN io_failures ELSE io_failures + 1

----------------------------------------------------------------------------
(* The categories dict. *)

Keys(cats) == {cats[i].name : i \in 1..Len(cats)}

\* categories[name] = color: an existing key keeps its place, a new one goes last
SetItem(cats, n, c) ==
    IF n \in Keys(cats)
    THEN [i \in 1..Len(cats) |-> IF cats[i].name = n THEN [name |-> n, color |-> c] ELSE cats[i]]
    ELSE Append(cats, [name |-> n, color |-> c])

\* del categories[name]
DelItem(cats, n) == SelectSeq(cats, LAMBDA e : e.name # n)

\* categories[name]
GetItem(cats, n) == (CHOOSE i \in 1..Len(cats) : cats[i].name = n)

\* categories_dict[category]: a KeyError for an absent name
get_color_by_subscript(category, categories_dict) ==
    IF category \in Keys(categories_dict)
    THEN categories_dict[GetItem(categories_dict, category)].color
    ELSE "KeyError"

\* lines 94-95: categories_dict.get(category, "#6C5CE7")
get_color_for_activity(category, categories_dict) ==
    IF category \in Keys(categories_dict)
    THEN categories_dict[GetItem(categories_dict, category)].color
    ELSE "#6C5CE7"

\* what the user types in the add_category form (the color is the picker's default)
CategoryNames == {"", "Gym"}
Colors == {"#FF6B6B"}
\* the category rows whose delete button the user clicks
ShownCategories == {"Work", "Gym"}
\* the category whose color the user changes, and the color picked
RecoloredCategories == {"Work"}
PickerColors == {"#000000"}

\* lines 128-131: the color picker of one category row
ColorPicker(cat_name, new_color, io) ==
    /\ cat_name \in Keys(categories) \cap ShownCategories
    /\ new_color # categories[GetItem(categories, cat_name)].color
    /\ IoAllowed(io)
    /\ categories' = SetItem(categories, cat_name, new_color)
    /\ config_file' = save_categories_file(categories', io, config_file)
    /\ io_failures' = IoCount(io)
    /\ last' = [op |-> "update_color",
                msg |-> IF save_categories(categories', io) THEN "saved" ELSE "not_saved"]
    /\ UNCHANGED <<activities, data_file, next_uuid>>

\* the guard of line 134 off by one
del_cat_allowed_any(cats) == Len(cats) > 0

\* the guard of line 134
del_cat_allowed(cats) == Len(cats) > 1

\* lines 133-139: the delete button of one category row
DelCategory(cat_name, io) ==
    /\ cat_name \in Keys(categories) \cap ShownCategories
    /\ IF del_cat_allowed(categories)
       THEN /\ IoAllowed(io)
            /\ categories' = DelItem(categories, cat_name)
            /\ config_file' = save_categories_file(categories', io, config_file)
            /\ io_failures' = IoCount(io)
            /\ last' = [op |-> "del_cat",
                        msg |-> IF save_categories(categories', io) THEN "saved" ELSE "not_saved"]
       ELSE /\ io = "ok"
            /\ last' = [op |-> "del_cat", msg |-> "Must have at least one category!"]
            /\ UNCHANGED <<categories, config_file, io_failures>>
    /\ UNCHANGED <<activities, data_file, next_uuid>>

\* the guard of line 148
add_category_valid(cats, n) == n # "" /\ n \notin Keys(cats)

\* lines 147-158: the add_category form
AddCategory(new_cat_name, new_cat_color, io) ==
    /\ IF add_category_valid(categories, new_cat_name)
       THEN /\ IoAllowed(io)
            /\ categories' = SetItem(categories, new_cat_name, new_cat_color)
            /\ config_file' = save_categories_file(categories', io, config_file)
            /\ io_failures' = IoCount(io)
            /\ last' = [op |-> "add_category",
                        msg |-> IF save_categories(categories', io)
                                THEN "Added category" ELSE "Failed to save category"]
       ELSE /\ io = "ok"
            /\ last' = [op |-> "add_category",
                        msg |-> IF new_cat_name \in Keys(categories)
                                THEN "Category already exists!"
                                ELSE "Please enter a category name"]
            /\ UNCHANGED <<categories, config_file, io_failures>>
    /\ UNCHANGED <<activities, data_file, next_uuid>>

----------------------------------------------------------------------------
(* The activity handlers. *)

\* what the user enters in the add_activity form: a valid activity, an empty
\* name, a start after the end
AddInputs ==
    { [name |-> "Plan", start_date |-> 1, end_date |-> 2, priority |-> "High", description |-> ""],
      [name |-> "", start_date |-> 1, end_date |-> 2, priority |-> "High", description |-> ""],
      [name |-> "Plan", start_date |-> 2, end_date |-> 1, priority |-> "High", description |-> ""] }

\* what the user enters in the edit form: the same three cases
EditInputs ==
    { [name |-> "Trip", start_date |-> 2, end_date |-> 2, priority |-> "Low", description |-> "notes"],
      [name |-> "", start_date |-> 1, end_date |-> 2, priority |-> "High", description |-> ""],
      [name |-> "Trip", start_date |-> 2, end_date |-> 1, priority |-> "Low", description |-> "notes"] }

\* the category selectbox: the user keeps its default option, the first key
CategoryChoices(cats) ==
    IF Len(cats) = 0 THEN {"None"} ELSE {cats[1].name}

\* the guard without its date comparison
form_valid_name_only(f) == f.name # ""

\* the guard of lines 184 and 369
form_valid(f) == f.name # "" /\ DateLE(f.start_date, f.end_date)

\* lines 185-194
new_activity(f, cat) ==
    [id |-> uuid4(0), name |-> f.name, start_date |-> f.start_date,
     end_date |-> f.end_date, category |-> cat, priority |-> f.priority,
     description |-> f.description, created_at |-> now]

\* lines 183-204: the add_activity form
AddActivity(f, cat, io) ==
    /\ cat \in CategoryChoices(categories)
    /\ IF form_valid(f)
       THEN /\ Len(activities) < MaxActs
            /\ next_uuid <= MaxIds
            /\ IoAllowed(io)
            /\ activities' = Append(activities, new_activity(f, cat))
            /\ data_file' = save_activities_file(activities', io, data_file)
            /\ next_uuid' = next_uuid + 1
            /\ io_failures' = IoCount(io)
            /\ last' = [op |-> "add_activity",
                        msg |-> IF save_activities(activities', io)
                                THEN "Added and saved to file"
                                ELSE "Activity added but failed to save to file"]
       ELSE /\ io = "ok"
            /\ last' = [op |-> "add_activity", msg |-> "Please enter a valid activity"]
            /\ UNCHANGED <<activities, data_file, next_uuid, io_failures>>
    /\ UNCHANGED <<categories, config_file>>

\* lines 373-380: dict.update with the six form fields
updated(a, f, cat) ==
    [a EXCEPT !.name = f.name, !.start_date = f.start_date, !.end_date = f.end_date,
              !.category = cat, !.priority = f.priority, !.description = f.description]

\* lines 371-381: the first activity whose id equals the edited one's is
\* updated, then the loop breaks; no match leaves the list as it is
update_loop(acts, id, f, cat) ==
    LET hits == {j \in 1..Len(acts) : IdEq(acts[j].id, id)} IN
    IF hits = {} THEN acts
    ELSE LET j == CHOOSE k \in hits : \A m \in hits : k <= m IN
         [acts EXCEPT ![j] = updated(acts[j], f, cat)]

\* lines 368-393: Save Changes in the edit form of the activity shown from
\* position i of the list
UpdateActivity(i, f, cat, io) ==
    /\ i \in 1..Len(activities)
    /\ cat \in CategoryChoices(categories)
    /\ IF form_valid(f)
       THEN /\ IoAllowed(io)
            /\ activities' = update_loop(activities, activities[i].id, f, cat)
            /\ data_file' = save_activities_file(activities', io, data_file)
            /\ io_failures' = IoCount(io)
            /\ last' = [op |-> "update",
                        msg |-> IF save_activities(activities', io)
                                THEN "Activity updated and saved!"
                                ELSE "Activity updated but failed to save"]
       ELSE /\ io = "ok"
            /\ last' = [op |-> "update", msg |-> "Please enter a valid activity"]
            /\ UNCHANGED <<activities, data_file, io_failures>>
    /\ UNCHANGED <<categories, config_file, next_uuid>>

\* lines 323-326: keep the activities whose id differs from the deleted one's
without_id(acts, id) == SelectSeq(acts, LAMBDA a : ~IdEq(a.id, id))

\* lines 322-332: the Delete button of the activity shown from position i
DeleteActivity(i, io) ==
    /\ i \in 1..Len(activities)
    /\ IoAllowed(io)
    /\ activities' = without_id(activities, activities[i].id)
    /\ data_file' = save_activities_file(activities', io, data_file)
    /\ io_failures' = IoCount(io)
    /\ last' = [op |-> "delete",
                msg |-> IF save_activities(activities', io)
                        THEN "Activity deleted and saved!"
                        ELSE "Activity deleted but failed to save"]
    /\ UNCHANGED <<categories, config_file, next_uuid>>

\* lines 463-466: Clear All Activities, shown while the list is not empty
ClearAll(io) ==
    /\ Len(activities) > 0
    /\ IoAllowed(io)
    /\ activities' = <<>>
    /\ data_file' = save_activities_file(activities', io, data_file)
    /\ io_failures' = IoCount(io)
    /\ last' = [op |-> "clear_all",
                msg |-> IF save_activities(activities', io) THEN "saved" ELSE "not_saved"]
    /\ UNCHANGED <<categories, config_file, next_uuid>>

\* lines 110-112: Reload Data
ReloadData ==
    /\ activities' = load_activities(data_file)
    /\ last' = [op |-> "reload", msg |-> ""]
    /\ UNCHANGED <<categories, data_file, config_file, next_uuid, io_failures>>

----------------------------------------------------------------------------
(* CSV import. *)

\* one CSV row; an empty cell is ""
Row(id, name, s, e) ==
    [id |-> id, name |-> name, start_date |-> s, end_date |-> e, category |-> "Work",
     priority |-> "Low", description |-> "csv", created_at |-> "2024-01-01 00:00:00"]

\* the uploaded files: which optional columns they have, and their rows
\* an export of this session's first activity, imported back
CsvExported == [has_id |-> TRUE, has_created_at |-> TRUE,
                rows |-> << [Row(1, "Plan", "2024-01-01", "2024-01-02")
                               EXCEPT !.created_at = "2024-01-01 00:00:01"] >>]
\* a row whose end_date cell is empty
CsvMissingEnd == [has_id |-> FALSE, has_created_at |-> FALSE,
                  rows |-> << Row(NaN, "Walk", "2024-01-02", "") >>]
\* a good row, then a row whose start_date is no date
CsvBadDate == [has_id |-> FALSE, has_created_at |-> FALSE,
               rows |-> << Row(NaN, "Swim", "2024-01-01", "2024-01-01"),
                           Row(NaN, "Walk", "tomorrow", "2024-01-02") >>]
\* a row that ends before it starts
CsvReversed == [has_id |-> FALSE, has_created_at |-> FALSE,
                rows |-> << Row(NaN, "Back", "2024-01-02", "2024-01-01") >>]
\* an id column whose cell is empty
CsvEmptyId == [has_id |-> TRUE, has_created_at |-> TRUE,
               rows |-> << Row(NaN, "Walk", "2024-01-01", "2024-01-02") >>]

\* a row whose start_date cell is empty
CsvMissingStart == [has_id |-> FALSE, has_created_at |-> FALSE,
                    rows |-> << Row(NaN, "Walk", "", "2024-01-02") >>]

CsvFiles == {CsvExported, CsvMissingEnd, CsvBadDate, CsvReversed, CsvEmptyId}

\* pd.to_datetime on one cell does not raise: an empty cell becomes NaT
to_datetime_ok(s) == s = "" \/ strptime_date_ok(s)

\* pd.to_datetime(cell).date()
to_datetime(s) == IF s = "" THEN NaT ELSE strptime_date(s)

\* lines 438-442 run without an exception
read_csv_ok(csv) ==
    \A i \in 1..Len(csv.rows) :
        /\ to_datetime_ok(csv.rows[i].start_date)
        /\ to_datetime_ok(csv.rows[i].end_date)
        /\ csv.has_created_at => strptime_datetime_ok(csv.rows[i].created_at)

\* lines 438-449: import_df.to_dict('records')
imported_activities(csv) ==
    [i \in 1..Len(csv.rows) |->
        [id |-> IF csv.has_id THEN csv.rows[i].id ELSE uuid4(i - 1),
         name |-> csv.rows[i].name,
         start_date |-> to_datetime(csv.rows[i].start_date),
         end_date |-> to_datetime(csv.rows[i].end_date),
         category |-> csv.rows[i].category,
         priority |-> csv.rows[i].priority,
         description |-> csv.rows[i].description,
         created_at |-> IF csv.has_created_at
                        THEN strptime_datetime(csv.rows[i].created_at)
                        ELSE now]]

\* uuid4() and now() calls of one import
creations(csv) ==
    IF ~csv.has_id THEN Len(csv.rows) ELSE IF ~csv.has_created_at THEN 1 ELSE 0

\* line 452
extended(acts, csv) == acts \o imported_activities(csv)

\* lines 435-460: a CSV is uploaded and Confirm Import is clicked; the
\* uploader is shown while the list is not empty (line 294)
ImportCsv(csv, io) ==
    /\ Len(activities) > 0
    /\ IF read_csv_ok(csv)
       THEN /\ Len(activities) + Len(csv.rows) <= MaxActs
            /\ next_uuid + creations(csv) <= MaxIds + 1
            /\ IoAllowed(io)
            /\ activities' = extended(activities, csv)
            /\ data_file' = save_activities_file(activities', io, data_file)
            /\ next_uuid' = next_uuid + creations(csv)
            /\ io_failures' = IoCount(io)
            /\ last' = [op |-> "import",
                        msg |-> IF save_activities(activities', io)
                                THEN "Successfully imported"
                                ELSE "Import successful but failed to save"]
       ELSE /\ io = "ok"
            /\ last' = [op |-> "import", msg |-> "Error importing CSV"]
            /\ UNCHANGED <<activities, data_file, next_uuid, io_failures>>
    /\ UNCHANGED <<categories, config_file>>

----------------------------------------------------------------------------

(* The sorted views of lines 212 and 296. *)

\* x['start_date'] < y['start_date'] raises: pandas 2 refuses to order NaT
\* against a datetime.date (NaT against NaT is False)
lt_raises(a, b) == (a.start_date = NaT) # (b.start_date = NaT)

\* x['start_date'] < y['start_date'] when it returns: earlier pandas answers
\* False for any comparison with NaT
lt(a, b) == a.start_date # NaT /\ b.start_date # NaT /\ a.start_date < b.start_date

\* position k of acts put into the sorted positions s: behind every position
\* whose start_date is not later
RECURSIVE insort(_, _, _)
insort(acts, s, k) ==
    IF s = <<>> THEN <<k>>
    ELSE IF lt(acts[k], acts[s[Len(s)]])
         THEN Append(insort(acts, SubSeq(s, 1, Len(s) - 1), k), s[Len(s)])
         ELSE Append(s, k)

\* the positions of acts in the order sorted(acts, key=start_date) lists them
RECURSIVE sorted_positions(_)
sorted_positions(acts) ==
    IF acts = <<>> THEN <<>>
    ELSE insort(acts, sorted_positions(SubSeq(acts, 1, Len(acts) - 1)), Len(acts))

\* sorted(st.session_state.activities, key=lambda x: x['start_date']): what
\* the call can do, a TypeError or a new list, the session list left alone
sorted_outcomes(acts) ==
    { [raised |-> FALSE, order |-> sorted_positions(acts)] }
    \cup IF \E i, j \in 1..Len(acts) : lt_raises(acts[i], acts[j])
         THEN { [raised |-> TRUE, order |-> <<>>] }
         ELSE {}

----------------------------------------------------------------------------

\* one click: ios are the I/O outcomes possible for its save, csvs the files
\* the user may upload
Handlers(ios, csvs) ==
    \/ \E n \in RecoloredCategories, c \in PickerColors, io \in ios : ColorPicker(n, c, io)
    \/ \E n \in ShownCategories, io \in ios : DelCategory(n, io)
    \/ \E n \in CategoryNames, c \in Colors, io \in ios : AddCategory(n, c, io)
    \/ \E f \in AddInputs, cat \in CategoryChoices(categories), io \in ios :
          AddActivity(f, cat, io)
    \/ \E i \in 1..Len(activities), f \in EditInputs,
          cat \in CategoryChoices(categories), io \in ios :
          UpdateActivity(i, f, cat, io)
    \/ \E i \in 1..Len(activities), io \in ios : DeleteActivity(i, io)
    \/ \E csv \in csvs, io \in ios : ImportCsv(csv, io)
    \/ \E io \in ios : ClearAll(io)
    \/ ReloadData

\* sessions whose file writes all go through (a save still fails when
\* strftime raises), with every CSV file
Next == Handlers({"ok"}, CsvFiles)

Spec == Init /\ [][Next]_vars

\* sessions in which up to MaxFails file writes fail: started with no data
\* file and a one-category config file, importing the CSV that saves
InitIo == Init /\ data_file = NoFile /\ config_file # NoFile

NextIo == Handlers(IoOutcomes, {CsvReversed})

SpecIo == InitIo /\ [][NextIo]_vars

\* sessions that import a CSV with an empty start_date cell
NextStart == Handlers({"ok"}, {CsvMissingStart, CsvReversed})

SpecStart == Init /\ [][NextStart]_vars

----------------------------------------------------------------------------
(* Properties. *)

\* the four stores a handler may change
stores == <<activities, categories, data_file, config_file>>

\* the messages a handler shows when it refuses its input
RejectionMessages ==
    { "Please enter a valid activity", "Category already exists!",
      "Please enter a category name", "Must have at least one category!" }

\* C1: the categories never become empty, and the delete button of the only
\* category is refused with its error message, leaving the categories and
\* the config file as they were.
C1_LastCategoryIsKept ==
    [][ /\ Len(categories) >= 1 => Len(categories') >= 1
        /\ (last'.op = "del_cat" /\ Len(categories) = 1)
             => \A n \in ShownCategories :
                   DelCategory(n, "ok")
                      => /\ last'.msg = "Must have at least one category!"
                         /\ UNCHANGED <<categories, config_file>> ]_vars

\* the delete button of the only category was clicked and refused
C1_Witness ==
    /\ last.op = "del_cat"
    /\ last.msg = "Must have at least one category!"
    /\ Len(categories) = 1

\* C4: an add_activity or edit form with an empty name or a start after the
\* end, and an add_category form with an empty or an existing name, are
\* refused, and a refused form changes neither collection nor file.
C4_RejectedAppliesNothing ==
    [][ /\ last'.msg \in RejectionMessages => UNCHANGED stores
        /\ last'.op = "add_activity"
             => \A f \in AddInputs, cat \in CategoryChoices(categories) :
                   ((f.name = "" \/ ~DateLE(f.start_date, f.end_date))
                       /\ AddActivity(f, cat, "ok"))
                      => last'.msg = "Please enter a valid activity"
        /\ last'.op = "update"
             => \A i \in 1..Len(activities), f \in EditInputs,
                   cat \in CategoryChoices(categories) :
                   ((f.name = "" \/ ~DateLE(f.start_date, f.end_date))
                       /\ UpdateActivity(i, f, cat, "ok"))
                      => last'.msg = "Please enter a valid activity"
        /\ last'.op = "add_category"
             => \A n \in CategoryNames, c \in Colors :
                   ((n = "" \/ n \in Keys(categories)) /\ AddCategory(n, c, "ok"))
                      => last'.msg \in {"Category already exists!",
                                        "Please enter a category name"} ]_vars

\* an edit form with a start after the end was refused while the list held
\* two activities and the session two categories
C4_Witness ==
    /\ last.op = "update"
    /\ last.msg = "Please enter a valid activity"
    /\ Len(activities) = 2
    /\ Len(categories) = 2

\* C2: once an add or an update has succeeded, every activity of the list
\* starts no later than it ends.
C2_DatesOrderedAfterAddOrUpdate ==
    last.msg \in {"Added and saved to file", "Activity updated and saved!"}
        => \A i \in 1..Len(activities) :
              DateLE(activities[i].start_date, activities[i].end_date)

\* C3: no two activities of the list have the same id.
C3_IdsAreUnique ==
    \A i, j \in 1..Len(activities) :
        i # j => activities[i].id # activities[j].id

\* the position of the activity being edited holds an id no activity matches
id_absent(acts, id) == \A j \in 1..Len(acts) : ~IdEq(acts[j].id, id)

\* C5: Save Changes for an id that matches no activity of the list is not
\* reported as an update that succeeded, and leaves the list as it is.
C5_UnknownIdIsNotFound ==
    [][ \A i \in 1..Len(activities), f \in EditInputs, cat \in CategoryChoices(categories) :
          (/\ form_valid(f)
           /\ id_absent(activities, activities[i].id)
           /\ UpdateActivity(i, f, cat, "ok"))
             => /\ last'.msg # "Activity updated and saved!"
                /\ activities' = activities ]_vars

\* C6: an update that is reported to have succeeded replaces the six form
\* fields of the edited activity and changes nothing else: its id, its
\* created_at, its position, the other activities.
C6_UpdateReplacesOnlyTheTarget ==
    [][ \A i \in 1..Len(activities), f \in EditInputs, cat \in CategoryChoices(categories) :
          (UpdateActivity(i, f, cat, "ok") /\ last'.msg = "Activity updated and saved!")
             => /\ Len(activities') = Len(activities)
                /\ activities'[i] = updated(activities[i], f, cat)
                /\ activities'[i].id = activities[i].id
                /\ activities'[i].created_at = activities[i].created_at
                /\ \A j \in 1..Len(activities) : j # i => activities'[j] = activities[j] ]_vars

\* the records of a file that parse, parsed, in file order
well_formed(f) ==
    IF f.state # "json" THEN <<>>
    ELSE LET good == SelectSeq(f.data, record_parses) IN
         [i \in 1..Len(good) |-> parse_record(good[i])]

\* C9: a load (at session start or by Reload Data) yields the records of
\* the file that parse, in file order, whatever the other records hold.
C9_LoadSkipsOnlyBadRecords ==
    last.op \in {"start", "reload"} => activities = well_formed(data_file)

\* both date cells of a CSV row hold a date
row_valid(r) == strptime_date_ok(r.start_date) /\ strptime_date_ok(r.end_date)

\* the rows of a CSV whose dates are both present and parse, as activities
valid_rows(csv) ==
    LET all == imported_activities(
                  [csv EXCEPT !.rows = [i \in 1..Len(csv.rows) |->
                      IF row_valid(csv.rows[i]) THEN csv.rows[i]
                      ELSE [csv.rows[i] EXCEPT !.start_date = "2024-01-01",
                                               !.end_date = "2024-01-01"]]])
    IN SelectSeq([i \in 1..Len(csv.rows) |-> [ok |-> row_valid(csv.rows[i]), a |-> all[i]]],
                 LAMBDA e : e.ok)

\* C10: a confirmed import is never refused as a whole, keeps the existing
\* activities, appends the rows whose two dates are present and parse, and
\* lets no activity with a missing date into the list.
C10_ImportAppendsValidRows ==
    [][ \A csv \in CsvFiles :
          ImportCsv(csv, "ok")
             => /\ last'.msg # "Error importing CSV"
                /\ SubSeq(activities', 1, Len(activities)) = activities
                /\ Len(activities') = Len(activities) + Len(valid_rows(csv))
                /\ \A k \in 1..Len(valid_rows(csv)) :
                      /\ activities'[Len(activities) + k].name = valid_rows(csv)[k].a.name
                      /\ activities'[Len(activities) + k].start_date = valid_rows(csv)[k].a.start_date
                      /\ activities'[Len(activities) + k].end_date = valid_rows(csv)[k].a.end_date
                /\ \A k \in 1..Len(activities') :
                      activities'[k].start_date # NaT /\ activities'[k].end_date # NaT ]_vars

\* the messages of a handler whose save returned True
SavedMessages ==
    { "Added and saved to file", "Activity updated and saved!", "Activity deleted and saved!",
      "Successfully imported", "Added category", "saved" }

\* the messages of a handler whose save returned False
NotSavedMessages ==
    { "Activity added but failed to save to file", "Activity updated but failed to save",
      "Activity deleted but failed to save", "Import successful but failed to save",
      "Failed to save category", "not_saved" }

ActivityOps == {"add_activity", "update", "delete", "import", "clear_all"}
CategoryOps == {"add_category", "update_color", "del_cat"}

\* file f holds one record per activity of acts, in the same order, with the
\* same fields and the dates as text, and nothing else
mirrors(f, acts) ==
    /\ f.state = "json"
    /\ Len(f.data) = Len(acts)
    /\ \A i \in 1..Len(acts) :
          /\ f.data[i].id = acts[i].id
          /\ f.data[i].name = acts[i].name
          /\ f.data[i].category = acts[i].category
          /\ f.data[i].priority = acts[i].priority
          /\ f.data[i].description = acts[i].description
          /\ f.data[i].start_date = strftime_date(acts[i].start_date)
          /\ f.data[i].end_date = strftime_date(acts[i].end_date)
          /\ f.data[i].created_at = strftime_datetime(acts[i].created_at)

\* C7: after a handler whose save succeeded, the file of the collection it
\* changed holds exactly that collection: the activities file one record per
\* activity in list order, the config file the categories in dict order.
C7_SavedFileMirrorsMemory ==
    last.msg \in SavedMessages
        => /\ last.op \in ActivityOps => mirrors(data_file, activities)
           /\ last.op \in CategoryOps => config_file = JsonFile(categories)

\* a delete was saved after an earlier write had failed, with activities left
C7_Witness ==
    /\ last.op = "delete"
    /\ last.msg = "Activity deleted and saved!"
    /\ io_failures = 1
    /\ Len(activities) >= 1

\* C8: a failed save keeps the change in memory (a failed add still appends
\* the new activity, a failed category add still inserts it) and leaves the
\* file as it was or garbled; a file changes only in the step of a handler
\* that saves it; and the next handler whose save succeeds writes the whole
\* collection as it then is, whatever the file held.
C8_FailedSaveIsNotFatal ==
    [][ /\ last'.msg = "Activity added but failed to save to file"
            => /\ Len(activities') = Len(activities) + 1
               /\ SubSeq(activities', 1, Len(activities)) = activities
               /\ data_file' \in {data_file, Garbled}
        /\ last'.msg = "Failed to save category"
            => /\ Len(categories') = Len(categories) + 1
               /\ config_file' \in {config_file, Garbled}
        /\ last'.msg \in NotSavedMessages
            => (last'.op \in ActivityOps /\ data_file' \in {data_file, Garbled})
               \/ (last'.op \in CategoryOps /\ config_file' \in {config_file, Garbled})
        /\ data_file' # data_file => last'.op \in ActivityOps
        /\ config_file' # config_file => last'.op \in CategoryOps
        /\ (~mirrors(data_file, activities) /\ last'.op \in ActivityOps
              /\ last'.msg \in SavedMessages)
            => mirrors(data_file', activities')
        /\ (config_file # JsonFile(categories) /\ last'.op \in CategoryOps
              /\ last'.msg \in SavedMessages)
            => config_file' = JsonFile(categories') ]_vars

\* an add has just failed to save: the list holds the new activity as its
\* second one and the file does not
C8_Witness ==
    /\ last.op = "add_activity"
    /\ last.msg = "Activity added but failed to save to file"
    /\ Len(activities) = 2
    /\ ~mirrors(data_file, activities)

\* the category of activity a is not a key of the categories
dangling(a, cats) == a.category \notin Keys(cats)

\* C11: a category handler (delete, add, recolor) leaves the activity list
\* and its file as they are, so the activities of a deleted category keep
\* its name; an add or an import is not refused because of the category and
\* stores the category it was given, present or not; and the color of every
\* activity resolves to the color stored under its category, or to #6C5CE7
\* when the name is not a key.
C11_CategoryReferencesAreSoft ==
    [][ /\ last'.op \in CategoryOps => UNCHANGED <<activities, data_file>>
        /\ last'.op = "add_activity"
             => \A f \in AddInputs, cat \in CategoryChoices(categories) :
                   (form_valid(f) /\ AddActivity(f, cat, "ok"))
                      => /\ last'.msg \notin RejectionMessages
                         /\ activities'[Len(activities')].category = cat
        /\ last'.op = "import"
             => \A csv \in CsvFiles :
                   (read_csv_ok(csv) /\ ImportCsv(csv, "ok"))
                      => /\ Len(activities') = Len(activities) + Len(csv.rows)
                         /\ \A k \in 1..Len(csv.rows) :
                               activities'[Len(activities) + k].category = csv.rows[k].category
        /\ \A i \in 1..Len(activities') :
              LET c == activities'[i].category
                  color == get_color_for_activity(c, categories')
              IN IF dangling(activities'[i], categories')
                 THEN color = "#6C5CE7"
                 ELSE \E k \in 1..Len(categories') :
                         categories'[k] = [name |-> c, color |-> color] ]_vars

\* a category has just been deleted while an activity names it: the activity
\* is still in the list under that name and its color is the fallback
C11_Witness ==
    /\ last.op = "del_cat"
    /\ last.msg = "saved"
    /\ \E i \in 1..Len(activities) :
          /\ dangling(activities[i], categories)
          /\ get_color_for_activity(activities[i].category, categories) = "#6C5CE7"

\* C12: sorting the activities by start_date never fails and lists every
\* position of the session list exactly once, no activity before one that
\* starts earlier, and activities that start on the same day in the order
\* the session list holds them.
C12_SortedIsStableAscending ==
    \A o \in sorted_outcomes(activities) :
        /\ ~o.raised
        /\ Len(o.order) = Len(activities)
        /\ {o.order[k] : k \in 1..Len(o.order)} = 1..Len(activities)
        /\ \A i, j \in 1..Len(o.order) :
              i < j => /\ ~lt(activities[o.order[j]], activities[o.order[i]])
                       /\ activities[o.order[i]].start_date = activities[o.order[j]].start_date
                             => o.order[i] < o.order[j]

====
